---- MODULE Spec2Model ----
(***************************************************************************)
(* tilli_lite: a utility-billing customer portal (Flask + SQLAlchemy).     *)
(*                                                                         *)
(* The model is the relational database (Account, User, Bill,              *)
(* PaymentTransaction, CommunicationLog, Request rows) together with the   *)
(* requests that are being handled.  Every request handler works on its    *)
(* own ORM session: it loads rows into objects, changes the objects and    *)
(* the objects' changed attributes are written back by db.session.commit().*)
(* flash is the category of the message the last answered request flashed. *)
(* pay_bill is therefore two steps, the load-and-validate step (pay_bill)  *)
(* and the settle-and-commit step (simulate_payment_and_nudge); requests   *)
(* of different clients interleave between the two.                        *)
(*                                                                         *)
(* Money is a Float column; the model counts in cents (0.01 = 1), which    *)
(* keeps the comparisons against 0.01 exact.  An account number 'A-000042' *)
(* is represented by its number 42.  Columns that no handler reads back    *)
(* to take a decision (names, addresses, e-mail, password hashes, dates,   *)
(* message bodies, request type and description) are left out of the rows. *)
(***************************************************************************)
EXTENDS Integers, Sequences, FiniteSets, Bags, TLC

\* ---------------------------------------------------------------- constants
Tolerance == 1
MinPayment == 1
MinBillAmount == 1
CardLength == 16
DemoBill1Amount == 15550
DemoBill2Amount == 21000
DemoPaidBillAmount == 10000
DemoCustomerAccountNumber == 948102
DemoAdminAccountNumber == 0
FirstAccountNumber == 1
DemoBillCount == 3

\* ------------------------------------------------------------------- bounds
MaxAmount == 2
MaxAccounts == 2
MaxBills == 4
MaxTxns == 2
MaxRequests == 1

VARIABLES users, accounts, bills, txns, comms, requests, inflight, flash

vars == <<users, accounts, bills, txns, comms, requests, inflight, flash>>
db == <<users, accounts, bills, txns, comms, requests>>

\* ------------------------------------------------------------------- inputs
Anonymous == 0
CurrentUsers == 0..Len(users)
PaymentMethods == {"Visa", "MasterCard", "ACH"}
CommChoices == {"Email", "SMS"}
UsernameInputs == {"demo_customer", "admin", "carol"}
PreferenceInputs == {"Email", "SMS", "None"}
MethodInputs == {"Visa"}
BillIdInputs == 1..(Len(bills) + 1)
AccountNumberInputs ==
    {accounts[a].account_number : a \in DOMAIN accounts} \cup {FirstAccountNumber}

\* The amounts a client types into the form whose amount field is
\* pre-populated with the whole amount due: nothing, the smallest amount the
\* form takes, the amount due less the tolerance, the amount due and one cent
\* more.
AmountInputs(prepopulated) ==
    {0, MinPayment, prepopulated - Tolerance, prepopulated, prepopulated + 1}

\* The forms a client can post to /pay/<bill_id>; one form with a short card
\* number and one with a payment type that is no choice of the select field
\* stand for the forms that fail validation on those fields.
PayBillForms(prepopulated) ==
    {[amount_to_pay |-> a, simulated_card |-> CardLength, payment_method_type |-> m] :
        a \in AmountInputs(prepopulated), m \in MethodInputs}
    \cup {[amount_to_pay |-> prepopulated, simulated_card |-> CardLength - 1,
           payment_method_type |-> "Visa"],
          [amount_to_pay |-> prepopulated, simulated_card |-> CardLength,
           payment_method_type |-> "Cash"]}

\* The requests <<user, bill id, form>> a client can send to /pay/<bill_id>.
PayBillRequests ==
    {<<u, b, form>> : u \in CurrentUsers, b \in BillIdInputs \ DOMAIN bills,
                      form \in PayBillForms(0)}
    \cup UNION {{<<u, b, form>> : u \in CurrentUsers,
                                 form \in PayBillForms(bills[b].amount_due)} :
                b \in DOMAIN bills}

\* The forms an administrator can post to /admin/bill/create; one form
\* without a due date stands for the forms that fail validation on that field.
AdminBillForms ==
    [account_number : AccountNumberInputs, original_amount : 0..MaxAmount,
     due_date : {"2026-01-31"}]
    \cup {[account_number |-> FirstAccountNumber, original_amount |-> MinBillAmount,
           due_date |-> ""]}

\* ------------------------------------------------------------------ helpers
IsAuthenticated(u) == u # Anonymous /\ u \in DOMAIN users

\* The decorator with the check of the role left out.
admin_required_any_role(u) == IsAuthenticated(u)

admin_required(u) == IsAuthenticated(u) /\ users[u].role = "admin"

UsernameTaken(name) == \E i \in DOMAIN users : users[i].username = name

AccountNumberTaken(n) == \E a \in DOMAIN accounts : accounts[a].account_number = n

\* Account.query.filter_by(account_number=...).first(): 0 when there is none.
AccountByNumber(n) ==
    IF AccountNumberTaken(n)
    THEN CHOOSE a \in DOMAIN accounts : accounts[a].account_number = n
    ELSE 0

\* ------------------------------------------------------------ form validation
\* PayBillForm: DataRequired + NumberRange(min=0.01) on the amount,
\* Length(16, 16) on the card, the select field's choices on the type.
PayBillFormValid(form) ==
    /\ form.amount_to_pay # 0
    /\ form.amount_to_pay >= MinPayment
    /\ form.simulated_card = CardLength
    /\ form.payment_method_type \in PaymentMethods

AdminBillFormValid(form) ==
    /\ form.original_amount # 0
    /\ form.original_amount >= MinBillAmount
    /\ form.due_date # ""

UpdateProfileFormValid(pref) == pref \in CommChoices

\* ------------------------------------------------------------------ payments
\* The amount check without its upper limit.
AmountPositive(amount, amount_due) == ~(amount <= 0)

\* The amount check of pay_bill against the bill object it loaded.
AmountInRange(amount, amount_due) == ~(amount <= 0 \/ amount > amount_due)

\* pay_bill without the check that the bill is of the user's account.
PayBillOutcomeAnyBill(u, b, form) ==
    IF ~IsAuthenticated(u) THEN "pay_bill:login_required"
    ELSE IF users[u].role # "customer" THEN "pay_bill:access_denied"
    ELSE IF b \notin DOMAIN bills THEN "pay_bill:not_found"
    ELSE IF bills[b].status = "Paid" THEN "pay_bill:already_paid"
    ELSE IF ~PayBillFormValid(form) THEN "pay_bill:form_errors"
    ELSE IF ~AmountInRange(form.amount_to_pay, bills[b].amount_due)
         THEN "pay_bill:invalid_amount"
    ELSE "pay_bill:accepted"

\* What pay_bill answers to a POST by user u for bill b, on the rows as they
\* are in the database when the request loads them.
PayBillOutcome(u, b, form) ==
    IF ~IsAuthenticated(u) THEN "pay_bill:login_required"
    ELSE IF users[u].role # "customer" THEN "pay_bill:access_denied"
    ELSE IF b \notin DOMAIN bills THEN "pay_bill:not_found"
    ELSE IF bills[b].account_id # users[u].account_id THEN "pay_bill:no_access"
    ELSE IF bills[b].status = "Paid" THEN "pay_bill:already_paid"
    ELSE IF ~PayBillFormValid(form) THEN "pay_bill:form_errors"
    ELSE IF ~AmountInRange(form.amount_to_pay, bills[b].amount_due)
         THEN "pay_bill:invalid_amount"
    ELSE "pay_bill:accepted"

\* The category of the message pay_bill flashes with its answer ("none": it
\* flashes nothing, as when it renders the form again or answers 404).
PayBillFlash(outcome) ==
    CASE outcome = "pay_bill:login_required" -> "message"
      [] outcome = "pay_bill:access_denied" -> "danger"
      [] outcome = "pay_bill:no_access" -> "danger"
      [] outcome = "pay_bill:already_paid" -> "info"
      [] outcome = "pay_bill:invalid_amount" -> "danger"
      [] OTHER -> "none"

\* The settlement with the tolerance compared by < instead of <=.
SettleStrict(amount_due, amount) ==
    IF amount_due - amount < Tolerance
    THEN [amount_due |-> 0, status |-> "Paid", event |-> "Payment Success - Full"]
    ELSE [amount_due |-> amount_due - amount, status |-> "Partial",
          event |-> "Payment Success - Partial"]

\* The bill object after lines 49-61: the new balance, status and event.
Settle(amount_due, amount) ==
    IF amount_due - amount <= Tolerance
    THEN [amount_due |-> 0, status |-> "Paid", event |-> "Payment Success - Full"]
    ELSE [amount_due |-> amount_due - amount, status |-> "Partial",
          event |-> "Payment Success - Partial"]

\* db.session.commit() on a changed Bill object: the unit of work issues
\* UPDATE bill SET <the attributes whose value differs from the loaded one>
\* WHERE id = ...; an attribute set to the value it was loaded with is not
\* written, and the row is not read again before it is written.
FlushBill(row, loaded, obj) ==
    [row EXCEPT !.amount_due = IF obj.amount_due # loaded.amount_due
                               THEN obj.amount_due ELSE @,
                !.status = IF obj.status # loaded.status THEN obj.status ELSE @]

PaymentRow(s) ==
    [bill_id |-> s.bill_id, account_id |-> s.account.id, amount_paid |-> s.amount,
     payment_method |-> s.method, status |-> "Success"]

\* The payment's log row with the column default instead of the preference.
PaymentNudgeDefaultChannel(s, event) ==
    [account_id |-> s.account.id, trigger_event |-> event, channel |-> "Email"]

PaymentNudge(s, event) ==
    [account_id |-> s.account.id, trigger_event |-> event,
     channel |-> s.account.comm_preference]

NewBillNudge(a) ==
    [account_id |-> a, trigger_event |-> "New Bill Issued",
     channel |-> accounts[a].comm_preference]

\* The new bill row with nothing due.
NewBillNothingDue(a, original_amount) ==
    [account_id |-> a, original_amount |-> original_amount,
     amount_due |-> 0, status |-> "Unpaid"]

NewBill(a, original_amount) ==
    [account_id |-> a, original_amount |-> original_amount,
     amount_due |-> original_amount, status |-> "Unpaid"]

\* A row saved under the primary key of the table's last row (a merge).
MergeRow(table, row) ==
    IF table = <<>> THEN <<row>> ELSE [table EXCEPT ![Len(table)] = row]

\* db.session.add(row) followed by the commit: an INSERT, the new row gets the
\* next primary key and no other row of the table is touched.
AddRow(table, row) == Append(table, row)

InFlight == BagToSet(inflight)

\* --------------------------------------------------------------------- Init
Init ==
    /\ users = <<>>
    /\ accounts = <<>>
    /\ bills = <<>>
    /\ txns = <<>>
    /\ comms = <<>>
    /\ requests = <<>>
    /\ inflight = EmptyBag
    /\ flash = "none"

\* ------------------------------------------------------------------ actions
\* flask setup_demo_data (a command line call, it answers no request): one
\* transaction; a unique-constraint violation (a registered user already
\* called 'admin') aborts it with nothing written.
setup_demo_data ==
    /\ UNCHANGED <<txns, comms, requests, inflight, flash>>
    /\ IF UsernameTaken("demo_customer")
       THEN UNCHANGED <<users, accounts, bills>>
       ELSE IF \/ UsernameTaken("admin")
               \/ AccountNumberTaken(DemoCustomerAccountNumber)
               \/ AccountNumberTaken(DemoAdminAccountNumber)
       THEN UNCHANGED <<users, accounts, bills>>
       ELSE /\ Len(accounts) + 2 <= MaxAccounts
            /\ Len(bills) + 3 <= MaxBills
            /\ accounts' = accounts \o
                 << [account_number |-> DemoCustomerAccountNumber,
                     comm_preference |-> "Email"],
                    [account_number |-> DemoAdminAccountNumber,
                     comm_preference |-> "None"] >>
            /\ users' = users \o
                 << [username |-> "demo_customer", role |-> "customer",
                     account_id |-> Len(accounts) + 1],
                    [username |-> "admin", role |-> "admin",
                     account_id |-> Len(accounts) + 2] >>
            /\ bills' = bills \o
                 << [account_id |-> Len(accounts) + 1,
                     original_amount |-> DemoBill1Amount,
                     amount_due |-> DemoBill1Amount, status |-> "Unpaid"],
                    [account_id |-> Len(accounts) + 1,
                     original_amount |-> DemoBill2Amount,
                     amount_due |-> DemoBill2Amount, status |-> "Unpaid"],
                    [account_id |-> Len(accounts) + 1,
                     original_amount |-> DemoPaidBillAmount,
                     amount_due |-> 0, status |-> "Paid"] >>

\* POST /register by client u with a user name.
register(u, username) ==
    /\ UNCHANGED <<bills, txns, comms, requests, inflight>>
    /\ IF IsAuthenticated(u)
       THEN /\ flash' = "none"
            /\ UNCHANGED <<users, accounts>>
       ELSE IF UsernameTaken(username)
       THEN /\ flash' = "none"
            /\ UNCHANGED <<users, accounts>>
       ELSE LET new_account_number ==
                    IF accounts = <<>> THEN FirstAccountNumber
                    ELSE accounts[Len(accounts)].account_number + 1
            IN IF AccountNumberTaken(new_account_number)
               THEN /\ flash' = "none"
                    /\ UNCHANGED <<users, accounts>>
               ELSE /\ Len(accounts) < MaxAccounts
                    /\ accounts' = AddRow(accounts,
                         [account_number |-> new_account_number,
                          comm_preference |-> "Email"])
                    /\ users' = AddRow(users,
                         [username |-> username, role |-> "customer",
                          account_id |-> Len(accounts) + 1])
                    /\ flash' = "success"

\* POST /profile by client u choosing a communication preference.
profile(u, pref) ==
    /\ UNCHANGED <<users, bills, txns, comms, requests, inflight>>
    /\ IF ~IsAuthenticated(u)
       THEN flash' = "message" /\ UNCHANGED accounts
       ELSE IF users[u].role # "customer"
       THEN flash' = "danger" /\ UNCHANGED accounts
       ELSE IF ~UpdateProfileFormValid(pref)
       THEN flash' = "none" /\ UNCHANGED accounts
       ELSE /\ accounts' = [accounts EXCEPT
                              ![users[u].account_id].comm_preference = pref]
            /\ flash' = "success"

\* POST /request/submit by client u; form_ok: the form validates.
submit_request(u, form_ok) ==
    /\ UNCHANGED <<users, accounts, bills, txns, comms, inflight>>
    /\ IF ~IsAuthenticated(u)
       THEN flash' = "message" /\ UNCHANGED requests
       ELSE IF users[u].role # "customer"
       THEN flash' = "danger" /\ UNCHANGED requests
       ELSE IF ~form_ok
       THEN flash' = "none" /\ UNCHANGED requests
       ELSE /\ Len(requests) < MaxRequests
            /\ requests' = AddRow(requests,
                 [account_id |-> users[u].account_id, status |-> "New"])
            /\ flash' = "success"

\* POST /pay/<b> by client u, up to the call of simulate_payment_and_nudge:
\* the handler loads the user's account and the bill and validates; an
\* accepted request goes on with the objects it loaded.
pay_bill(u, b, form) ==
    /\ UNCHANGED db
    /\ IF PayBillOutcome(u, b, form) = "pay_bill:accepted"
       THEN /\ Len(txns) + BagCardinality(inflight) < MaxTxns
            /\ inflight' = inflight (+) SetToBag({
                 [bill_id |-> b,
                  bill |-> bills[b],
                  account |-> [id |-> users[u].account_id,
                               comm_preference |->
                                 accounts[users[u].account_id].comm_preference],
                  amount |-> form.amount_to_pay,
                  method |-> form.payment_method_type]})
            /\ UNCHANGED flash
       ELSE /\ flash' = PayBillFlash(PayBillOutcome(u, b, form))
            /\ UNCHANGED inflight

\* The settlement under optimistic locking: a request whose bill row was
\* changed since it was read is refused.
simulate_payment_versioned(s) ==
    /\ s \in InFlight
    /\ inflight' = inflight (-) SetToBag({s})
    /\ UNCHANGED <<users, accounts, requests>>
    /\ IF s.bill_id \notin DOMAIN bills \/ bills[s.bill_id] # s.bill
       THEN /\ flash' = "danger"
            /\ UNCHANGED <<bills, txns, comms>>
       ELSE LET obj == Settle(s.bill.amount_due, s.amount) IN
            /\ txns' = AddRow(txns, PaymentRow(s))
            /\ bills' = [bills EXCEPT ![s.bill_id] = FlushBill(@, s.bill, obj)]
            /\ comms' = AddRow(comms, PaymentNudge(s, obj.event))
            /\ flash' = "success"

\* simulate_payment_and_nudge for the accepted request s, and the redirect
\* that follows it: Bill.query.get returns the object the session holds.
simulate_payment_and_nudge(s) ==
    /\ s \in InFlight
    /\ inflight' = inflight (-) SetToBag({s})
    /\ UNCHANGED <<users, accounts, requests>>
    /\ IF s.bill_id \notin DOMAIN bills
       THEN /\ flash' = "danger"
            /\ UNCHANGED <<bills, txns, comms>>
       ELSE LET obj == Settle(s.bill.amount_due, s.amount) IN
            /\ txns' = AddRow(txns, PaymentRow(s))
            /\ bills' = [bills EXCEPT ![s.bill_id] = FlushBill(@, s.bill, obj)]
            /\ comms' = AddRow(comms, PaymentNudge(s, obj.event))
            /\ flash' = "success"

\* GET /admin by client u: the decorator redirects whoever is no
\* administrator; the dashboard itself only reads.
admin_dashboard(u) ==
    /\ UNCHANGED <<db, inflight>>
    /\ flash' = IF admin_required(u) THEN "none" ELSE "danger"

\* POST /admin/bill/create by client u; nudge_new_bill commits the new bill
\* and its communication log row in one transaction.
admin_create_bill(u, form) ==
    /\ UNCHANGED <<users, accounts, txns, requests, inflight>>
    /\ IF ~admin_required(u)
       THEN flash' = "danger" /\ UNCHANGED <<bills, comms>>
       ELSE IF ~AdminBillFormValid(form)
       THEN flash' = "none" /\ UNCHANGED <<bills, comms>>
       ELSE IF AccountByNumber(form.account_number) = 0
       THEN flash' = "danger"
            /\ UNCHANGED <<bills, comms>>
       ELSE /\ Len(bills) < MaxBills
            /\ bills' = AddRow(bills,
                 NewBill(AccountByNumber(form.account_number), form.original_amount))
            /\ comms' = AddRow(comms, NewBillNudge(AccountByNumber(form.account_number)))
            /\ flash' = "success"

Next ==
    \/ setup_demo_data
    \/ \E u \in CurrentUsers, name \in UsernameInputs : register(u, name)
    \/ \E u \in CurrentUsers, pref \in PreferenceInputs : profile(u, pref)
    \/ \E u \in CurrentUsers, form_ok \in BOOLEAN : submit_request(u, form_ok)
    \/ \E r \in PayBillRequests : pay_bill(r[1], r[2], r[3])
    \/ \E s \in InFlight : simulate_payment_and_nudge(s)
    \/ \E u \in CurrentUsers : admin_dashboard(u)
    \/ \E u \in CurrentUsers, form \in AdminBillForms : admin_create_bill(u, form)

Spec == Init /\ [][Next]_vars

\* ------------------------------------------------------------------- claims
\* The rows of PaymentTransaction that reference bill b.
PaymentsOf(b) == {i \in DOMAIN txns : txns[i].bill_id = b}

\* The step settles and commits the accepted request s.
Committed(s) == s \in InFlight /\ inflight' = inflight (-) SetToBag({s})

\* The step accepts the request s: pay_bill hands it to the settlement.
Accepted(s) == inflight' = inflight (+) SetToBag({s})

\* C1: for every bill, amount_due never increases from one committed state to
\* the next and always satisfies 0 <= amount_due <= original_amount.
C1_AmountDueNeverIncreases ==
    /\ [](\A b \in DOMAIN bills :
            0 <= bills[b].amount_due /\ bills[b].amount_due <= bills[b].original_amount)
    /\ [][\A b \in DOMAIN bills : bills'[b].amount_due <= bills[b].amount_due]_vars

\* C2: the status of each bill is determined by its amount_due: Paid when
\* amount_due <= 0.01, Partial when amount_due is still positive after at
\* least one payment, Unpaid otherwise.
C2_StatusDeterminedByAmountDue ==
    \A b \in DOMAIN bills :
        bills[b].status =
            IF bills[b].amount_due <= Tolerance THEN "Paid"
            ELSE IF PaymentsOf(b) # {} THEN "Partial"
            ELSE "Unpaid"

PayBillRejected(r) ==
    /\ PayBillOutcome(r[1], r[2], r[3]) \in
         {"pay_bill:invalid_amount", "pay_bill:already_paid", "pay_bill:no_access"}
    /\ pay_bill(r[1], r[2], r[3])

\* C4: every payment attempt submitted through pay_bill appends exactly one
\* PaymentTransaction row linked to the bill and to the paying account,
\* whether it is accepted (the row is appended when the request commits) or
\* rejected for an amount out of range, a bill already Paid or a bill of
\* another account.
C4_EveryAttemptLogged ==
    [][/\ \A s \in InFlight : Committed(s) =>
            /\ Len(txns') = Len(txns) + 1
            /\ txns'[Len(txns')].bill_id = s.bill_id
            /\ txns'[Len(txns')].account_id = s.account.id
       /\ IF Len(txns') = Len(txns) + 1
          THEN \A r \in PayBillRequests : PayBillRejected(r) =>
                 /\ txns'[Len(txns')].bill_id = r[2]
                 /\ txns'[Len(txns')].account_id = users[r[1]].account_id
          ELSE ~ \E r \in PayBillRequests : PayBillRejected(r)
      ]_vars

AppendOnly(old, new) == Len(old) <= Len(new) /\ SubSeq(new, 1, Len(old)) = old

\* C6: PaymentTransaction and CommunicationLog are append-only: no operation
\* modifies or deletes a committed row of either table.
C6_LogsAppendOnly ==
    [][AppendOnly(txns, txns') /\ AppendOnly(comms, comms')]_vars

C6_Witness ==
    /\ Len(txns) >= 2
    /\ Len(comms) >= 3
    /\ requests # <<>>
    /\ \E a \in DOMAIN accounts : accounts[a].comm_preference = "SMS"

\* The accepted request s read a bill row that another request has changed since.
Stale(s) == bills[s.bill_id] # s.bill

\* C7: payments are not protected against double submission: a request that
\* was validated on a bill row which another payment has changed before it
\* commits is not held back or rejected; it commits, subtracts its amount from
\* the amount_due it read and appends its own PaymentTransaction and
\* CommunicationLog rows.
C7_DoubleSubmissionBothApplied ==
    /\ [](\A s \in InFlight : ENABLED simulate_payment_and_nudge(s))
    /\ [][\A s \in InFlight : (Committed(s) /\ Stale(s)) =>
            /\ flash' = "success"
            /\ Len(txns') = Len(txns) + 1
            /\ txns'[Len(txns')].bill_id = s.bill_id
            /\ txns'[Len(txns')].amount_paid = s.amount
            /\ Len(comms') = Len(comms) + 1
            /\ bills'[s.bill_id].amount_due =
                 IF s.bill.amount_due - s.amount > Tolerance
                 THEN s.bill.amount_due - s.amount ELSE 0
         ]_vars

\* Two payments of one bill that add up to more than was billed.
C7_Witness ==
    \E i \in DOMAIN txns, j \in DOMAIN txns :
        /\ i < j
        /\ txns[i].bill_id = txns[j].bill_id
        /\ txns[i].amount_paid + txns[j].amount_paid
             > bills[txns[i].bill_id].original_amount

\* C8: each Account's comm_preference is 'Email' or 'SMS', and so is the
\* channel of every CommunicationLog row.
C8_PreferenceEmailOrSMS ==
    /\ \A a \in DOMAIN accounts : accounts[a].comm_preference \in {"Email", "SMS"}
    /\ \A c \in DOMAIN comms : comms[c].channel \in {"Email", "SMS"}

\* C9: bill status only moves forward (Unpaid->Partial, Unpaid->Paid,
\* Partial->Partial, Partial->Paid); a bill never returns to Unpaid, a Paid
\* bill's status and amount_due (0) never change again, and a pay_bill request
\* that finds the bill Paid changes nothing.
C9_StatusOnlyMovesForward ==
    [][/\ \A b \in DOMAIN bills :
            /\ <<bills[b].status, bills'[b].status>> \in
                 {<<"Unpaid", "Unpaid">>, <<"Unpaid", "Partial">>, <<"Unpaid", "Paid">>,
                  <<"Partial", "Partial">>, <<"Partial", "Paid">>, <<"Paid", "Paid">>}
            /\ bills[b].status = "Paid" =>
                 bills'[b].status = "Paid" /\ bills'[b].amount_due = 0
       /\ \/ UNCHANGED <<db, inflight>>
          \/ ~ \E r \in PayBillRequests :
                 /\ r[2] \in DOMAIN bills
                 /\ bills[r[2]].status = "Paid"
                 /\ pay_bill(r[1], r[2], r[3])
      ]_vars

\* C10: pay_bill accepts an amount only if 0.01 <= amount <= the bill's
\* current amount_due; a submission with an amount <= 0, below 0.01 or above
\* the amount_due is rejected and leaves the bill, the PaymentTransaction
\* table and the CommunicationLog table unchanged.
C10_AmountValidated ==
    [][/\ \A s \in BagToSet(inflight') : Accepted(s) =>
            /\ MinPayment <= s.amount
            /\ s.amount <= bills[s.bill_id].amount_due
       /\ \/ UNCHANGED <<bills, txns, comms, inflight>> /\ flash' # "success"
          \/ ~ \E r \in PayBillRequests :
                 /\ r[2] \in DOMAIN bills
                 /\ \/ r[3].amount_to_pay <= 0
                    \/ r[3].amount_to_pay < MinPayment
                    \/ r[3].amount_to_pay > bills[r[2]].amount_due
                 /\ pay_bill(r[1], r[2], r[3])
      ]_vars

C10_Witness ==
    /\ flash = "danger"
    /\ \E s \in InFlight : s.amount = s.bill.amount_due /\ ~Stale(s)
    /\ \E s \in InFlight : s.amount = MinPayment /\ s.amount < s.bill.amount_due

\* C11: a customer pays only bills of their own account.  A pay_bill request
\* for a bill of another account, or by a user whose role is not 'customer',
\* changes no table and starts no payment; a request is accepted only from a
\* customer for a bill of the customer's account; and every
\* PaymentTransaction row carries the account_id of the bill it references.
C11_OwnBillsOnly ==
    /\ [](\A i \in DOMAIN txns :
            /\ txns[i].bill_id \in DOMAIN bills
            /\ txns[i].account_id = bills[txns[i].bill_id].account_id)
    /\ [][/\ \A s \in BagToSet(inflight') : Accepted(s) =>
                /\ s.account.id = bills[s.bill_id].account_id
                /\ \E u \in DOMAIN users :
                     users[u].role = "customer" /\ users[u].account_id = s.account.id
           /\ \/ UNCHANGED <<db, inflight>> /\ flash' # "success"
              \/ ~ \E r \in PayBillRequests :
                     /\ \/ ~IsAuthenticated(r[1])
                        \/ users[r[1]].role # "customer"
                        \/ /\ r[2] \in DOMAIN bills
                           /\ bills[r[2]].account_id # users[r[1]].account_id
                     /\ pay_bill(r[1], r[2], r[3])
          ]_vars

\* A customer has paid, a bill of another account exists and the last
\* request was turned away.
C11_Witness ==
    /\ flash = "danger"
    /\ txns # <<>>
    /\ \E b \in DOMAIN bills : bills[b].account_id # txns[1].account_id

\* C12: only administrators create bills.  A request to admin_create_bill or
\* to admin_dashboard by a client who is not logged in or whose role is not
\* 'admin' is redirected with an error and creates no Bill and no
\* CommunicationLog row; the Bill table grows only by the seeding of the demo
\* data or by an admin_create_bill request of a user whose role is 'admin'.
C12_OnlyAdminsCreateBills ==
    /\ [](\A u \in CurrentUsers :
            (~IsAuthenticated(u) \/ users[u].role # "admin") =>
                /\ ~ ENABLED (/\ admin_dashboard(u)
                              /\ ~(UNCHANGED <<bills, comms>> /\ flash' = "danger"))
                /\ \A form \in AdminBillForms :
                     ~ ENABLED (/\ admin_create_bill(u, form)
                                /\ ~(UNCHANGED <<bills, comms>> /\ flash' = "danger")))
    /\ [][Len(bills') # Len(bills) =>
             \/ setup_demo_data
             \/ \E u \in DOMAIN users :
                   /\ users[u].role = "admin"
                   /\ \E form \in AdminBillForms : admin_create_bill(u, form)
         ]_vars

\* An administrator has created a bill, and a request has been turned away
\* while a customer is registered.
C12_Witness ==
    /\ flash = "danger"
    /\ \E c \in DOMAIN comms : comms[c].trigger_event = "New Bill Issued"
    /\ \E u \in DOMAIN users : users[u].role = "customer"

\* C13: admin_create_bill by an administrator with a form that validates
\* (an amount of at least 0.01, a due date) and names an existing account has
\* one outcome: exactly one Bill is added, for that account, with amount_due
\* equal to original_amount and status 'Unpaid', together with one
\* 'New Bill Issued' CommunicationLog row for the account; with an account
\* number that matches no Account the Bill and CommunicationLog tables stay
\* as they are.
C13_CreateBillEffect ==
    \A u \in DOMAIN users, form \in AdminBillForms :
        users[u].role = "admin" =>
            /\ (\A a \in DOMAIN accounts : accounts[a].account_number # form.account_number)
                 => ~ ENABLED (/\ admin_create_bill(u, form)
                               /\ ~ UNCHANGED <<bills, comms>>)
            /\ (/\ \E a \in DOMAIN accounts :
                       accounts[a].account_number = form.account_number
                 /\ form.original_amount >= MinBillAmount
                 /\ form.due_date # "")
                 => ~ ENABLED (/\ admin_create_bill(u, form)
                               /\ ~(/\ Len(bills') = Len(bills) + 1
                                     /\ SubSeq(bills', 1, Len(bills)) = bills
                                     /\ accounts[bills'[Len(bills')].account_id].account_number
                                          = form.account_number
                                     /\ bills'[Len(bills')].original_amount
                                          = form.original_amount
                                     /\ bills'[Len(bills')].amount_due
                                          = form.original_amount
                                     /\ bills'[Len(bills')].status = "Unpaid"
                                     /\ Len(comms') = Len(comms) + 1
                                     /\ SubSeq(comms', 1, Len(comms)) = comms
                                     /\ comms'[Len(comms')].trigger_event = "New Bill Issued"
                                     /\ comms'[Len(comms')].account_id
                                          = bills'[Len(bills')].account_id))

\* An administrator has created a bill of the smallest amount, and a request
\* was answered with an error while some account number matches no account.
C13_Witness ==
    /\ flash = "danger"
    /\ ~AccountNumberTaken(FirstAccountNumber)
    /\ \E c \in DOMAIN comms, b \in DOMAIN bills :
          /\ comms[c].trigger_event = "New Bill Issued"
          /\ comms[c].account_id = bills[b].account_id
          /\ bills[b].original_amount = MinBillAmount
          /\ bills[b].amount_due = MinBillAmount
          /\ bills[b].status = "Unpaid"

\* The sum of amount_paid over the first n PaymentTransaction rows that
\* reference bill b.
RECURSIVE SumPaid(_, _)
SumPaid(b, n) ==
    IF n = 0 THEN 0
    ELSE SumPaid(b, n - 1) + (IF txns[n].bill_id = b THEN txns[n].amount_paid ELSE 0)

\* The bills admin_create_bill created: setup_demo_data is the only source of
\* an administrator, so its bills are the first rows of the table.
CreatedByAdmin == {b \in DOMAIN bills : b > DemoBillCount}

\* C14: payment bookkeeping is conserved: for every bill created by
\* admin_create_bill, original_amount - amount_due equals the sum of
\* amount_paid over the bill's PaymentTransaction rows, and a bill is Paid
\* only when the payments recorded for it add up to its original_amount.
C14_PaymentsConserved ==
    \A b \in CreatedByAdmin :
        /\ bills[b].original_amount - bills[b].amount_due = SumPaid(b, Len(txns))
        /\ bills[b].status = "Paid" => SumPaid(b, Len(txns)) = bills[b].original_amount

\* Every account has as many PaymentTransaction rows as CommunicationLog rows
\* whose trigger_event starts with 'Payment Success'.
PaymentRowsMatchNudges ==
    \A a \in DOMAIN accounts :
        Cardinality({i \in DOMAIN txns : txns[i].account_id = a})
          = Cardinality({c \in DOMAIN comms :
                           /\ comms[c].account_id = a
                           /\ comms[c].trigger_event \in
                                {"Payment Success - Full", "Payment Success - Partial"}})

\* The amounts of the PaymentTransaction rows of every bill have all been
\* taken off the bill: what is left due is at most the amount billed less the
\* amounts recorded.
PaymentsSubtracted ==
    \A b \in DOMAIN bills :
        bills[b].amount_due <= bills[b].original_amount - SumPaid(b, Len(txns))

\* C15: a payment is applied atomically: in every committed state the number
\* of PaymentTransaction rows of an account equals the number of its
\* 'Payment Success' CommunicationLog rows, and there is no PaymentTransaction
\* row whose amount has not been subtracted from its bill.
C15_PaymentAtomic == PaymentRowsMatchNudges /\ PaymentsSubtracted

====
